---- MODULE Spec2Model ----
(***************************************************************************)
(* Model of index.js: the HTTP compression benchmark.                      *)
(*                                                                         *)
(* compareCompressions fetches a payload (fetchTestData, with the          *)
(* synthetic generator as fallback) and then runs testCompression for      *)
(* gzip, deflate and br, one after the other.  Every action below is one   *)
(* run-to-completion turn of the Node.js event loop: the code from one     *)
(* I/O event up to the next await on I/O.  The only split inside a turn is *)
(* at the promise boundary between testCompression's listen callback and   *)
(* the continuation of compareCompressions, which runs as a microtask      *)
(* right after it; nothing else is enabled in between.                     *)
(*                                                                         *)
(* A payload is a sequence of character classes: "a" is an ASCII           *)
(* character (one UTF-16 unit, one UTF-8 byte), "w" a non-ASCII character  *)
(* of the basic plane (one UTF-16 unit, three UTF-8 bytes).                *)
(***************************************************************************)
EXTENDS Integers, Sequences, FiniteSets, TLC

VARIABLES
  express,    \* what is known of the installed express from its behaviour so far
  pc,         \* position of compareCompressions
  urlIdx,     \* index in urls of the axios.get in flight in fetchTestData
  elapsed,    \* milliseconds since the axios.get in flight was issued (0 when none is)
  attempts,   \* the finished axios.get calls of fetchTestData, in order
  generated,  \* number of calls of generateCompressedTestData
  testData,   \* the payload held by compareCompressions
  cur,        \* number of testCompression invocations started
  inv,        \* the testCompression invocations, by position
  results,    \* the results array of compareCompressions
  report,     \* what console.table printed
  notice      \* whether console.error('Test failed:') was printed

vars == <<express, pc, urlIdx, elapsed, attempts, generated, testData, cur, inv,
          results, report, notice>>

-----------------------------------------------------------------------------
(* Bounds of the model *)

\* Math.random() takes the values k / RandSteps, k in 0..RandSteps-1
RandSteps == 2
\* longest payload a remote source supplies
MaxRemoteLen == 1
\* size asked of the generator, standing for 5 * 1024 * 1024
GenSize == 5
\* largest compressed body a server sends
MaxBody == 1
\* granularity of time while an axios.get of fetchTestData is in flight
TickMs == 5000

(* Program constants *)
PortBase == 3000
PortSpan == 1000
timeout == 10000

urls == << "https://www.gutenberg.org/files/100/100-0.txt",
           "https://www.gutenberg.org/cache/epub/100/pg100.txt" >>

words == << "the", "be", "to", "of", "and", "a", "in", "that", "have", "I",
            "Shakespeare", "Hamlet", "Macbeth", "Romeo", "Juliet", "Othello",
            "wherefore", "thou", "thy", "thee", "hast", "doth", "forsooth" >>

sizes == << "Bytes", "KB", "MB", "GB" >>

\* the codecs of the three testCompression calls, in call order
codecs == << "gzip", "deflate", "br" >>

NoData == << "no data" >>
NoResult == [algorithm |-> "no result"]
NoReport == << "no report" >>
NoResponse == [header |-> "no response", received |-> 0]

-----------------------------------------------------------------------------
(* Payloads *)

CharClasses == {"a", "w"}

RECURSIVE SeqsUpTo(_, _)
SeqsUpTo(S, n) ==
  IF n = 0 THEN { << >> }
  ELSE LET shorter == SeqsUpTo(S, n - 1)
       IN  shorter \cup { Append(s, c) : s \in shorter, c \in S }

\* what a remote source can supply as response.data
RemotePayloads == SeqsUpTo(CharClasses, MaxRemoteLen)

\* testData.length: the number of UTF-16 code units
Length(p) == Len(p)

\* the number of bytes res.send(testData) puts on the wire uncompressed
RECURSIVE Utf8Bytes(_)
Utf8Bytes(p) ==
  IF p = << >> THEN 0
  ELSE (IF Head(p) = "a" THEN 1 ELSE 3) + Utf8Bytes(Tail(p))

Ascii(n) == [i \in 1..n |-> "a"]

\* the loop stopping one character early
GenContinues_short(len, size) == len + 1 < size

\* the loop condition of generateCompressedTestData
GenContinues(len, size) == len < size

\* words[Math.floor(Math.random() * words.length)] for Math.random() = r / RandSteps
RandomWord(r) == words[((r * Len(words)) \div RandSteps) + 1]

\* Math.random() < 0.1 for Math.random() = r / RandSteps
LineBreak(r) == 10 * r < RandSteps

\* the lengths generateCompressedTestData(size) can return, starting from a
\* result of length len: every iteration appends a word and a space, and a
\* line break as well when the second draw is below 0.1
RECURSIVE GenLengths(_, _)
GenLengths(len, size) ==
  IF GenContinues(len, size)
  THEN UNION { GenLengths(len + Len(RandomWord(r1)) + 1 + (IF LineBreak(r2) THEN 1 ELSE 0), size) :
                 r1 \in 0..(RandSteps - 1), r2 \in 0..(RandSteps - 1) }
  ELSE { len }

\* the strings generateCompressedTestData(size) can return; every word, the
\* space and the line break are ASCII
generateCompressedTestData(size) == { Ascii(n) : n \in GenLengths(0, size) }

-----------------------------------------------------------------------------
(* Formatting *)

\* x / y rounded to the nearest integer, as toFixed rounds (y > 0)
RoundDiv(x, y) ==
  IF x >= 0 THEN (2 * x + y) \div (2 * y)
  ELSE 0 - ((2 * (0 - x) + y) \div (2 * y))

RECURSIVE Pow(_, _)
Pow(b, e) == IF e = 0 THEN 1 ELSE b * Pow(b, e - 1)

\* Math.floor(Math.log(bytes) / Math.log(base)) for bytes >= 1
RECURSIVE FloorLog(_, _)
FloorLog(bytes, base) ==
  IF bytes < base THEN 0 ELSE 1 + FloorLog(bytes \div base, base)

\* formatBytes: the number, in hundredths, and the unit; the unit is
\* "undefined" past the end of sizes
formatBytes(bytes) ==
  IF bytes = 0 THEN [hundredths |-> 0, unit |-> "Bytes"]
  ELSE LET i == FloorLog(bytes, 1024)
       IN  [hundredths |-> RoundDiv(bytes * 100, Pow(1024, i)),
            unit |-> IF i + 1 \in DOMAIN sizes THEN sizes[i + 1] ELSE "undefined"]

\* ((original - received) / original * 100).toFixed(2) + '%', in hundredths
\* of a percent; a division by zero gives NaN or -Infinity
compressionRatio(original, received) ==
  IF original = 0
  THEN [number |-> IF received = 0 THEN "NaN" ELSE "-Infinity", hundredths |-> 0]
  ELSE [number |-> "finite",
        hundredths |-> RoundDiv((original - received) * 10000, original)]

\* ((original - received) / (1024 * 1024)).toFixed(2) + ' MB', in hundredths
savingsInMB(original, received) ==
  [hundredths |-> RoundDiv((original - received) * 100, 1024 * 1024), unit |-> "MB"]

-----------------------------------------------------------------------------
(* HTTP *)

\* a response without the header: response.headers['content-encoding'] is undefined
Undefined == "undefined"

\* the encodings a release of the compression middleware implements: br was
\* added in 1.8.0
MiddlewareEncodings == { {"gzip", "deflate"}, {"gzip", "deflate", "br"} }

\* content negotiation: the Content-Encoding header a server implementing
\* `supported` can answer to a request accepting `accept`; the header is
\* absent when no accepted encoding is implemented (identity)
Negotiate(accept, supported) ==
  IF accept \cap supported = {} THEN { Undefined } ELSE accept \cap supported

\* a request that accepts every encoding, whatever the codec under test
AcceptEncoding_all(algorithm) == { "gzip", "deflate", "br" }

\* the headers object of testCompression: 'Accept-Encoding': algorithm
AcceptEncoding(algorithm) == { algorithm }

\* the bytes of response.data: the payload as sent when the header is absent,
\* else whatever the codec produced
BodySizes(header, payload) ==
  IF header = Undefined THEN { Utf8Bytes(payload) } ELSE 1..MaxBody

\* the header taken as it is, without the default
ResultAlgorithm_raw(header) == header

\* the algorithm field of the result
ResultAlgorithm(header) == IF header = Undefined THEN "none" ELSE header

\* the result object built after the response arrived (timeTaken apart)
Result(header, received, payload) ==
  [ algorithm        |-> ResultAlgorithm(header),
    originalSize     |-> formatBytes(Length(payload)),
    compressedSize   |-> formatBytes(received),
    compressionRatio |-> compressionRatio(Length(payload), received),
    savingsInMB      |-> savingsInMB(Length(payload), received) ]

-----------------------------------------------------------------------------
(* State *)

Invocations == 1..Len(codecs)

\* the draw multiplied by 1000 as if it were a whole number
RandomOffset_unscaled(r) == r * PortSpan

\* Math.floor(Math.random() * 1000) for Math.random() = r / RandSteps
RandomOffset(r) == (r * PortSpan) \div RandSteps

Ports == { PortBase + RandomOffset(r) : r \in 0..(RandSteps - 1) }

\* an invocation holds the arguments and locals of one testCompression call
\* (algorithm, testData, port, the server's listener, the promise, the
\* result) and, for the record, what happened in it: the requests issued,
\* the response received, the events in order and the number of calls of
\* resolve or reject
NotCalled ==
  [ st |-> "not called", algorithm |-> "", testData |-> NoData, port |-> 0,
    listener |-> "none", promise |-> "pending", requests |-> << >>,
    result |-> NoResult, response |-> NoResponse, events |-> << >>, settles |-> 0 ]

\* whether a live listener of this process holds the port
HeldHere(port) ==
  \E m \in Invocations : inv[m].listener = "listening" /\ inv[m].port = port

\* every call given test data generated for it alone
Called_ownData(n, r, taken, data) ==
  LET port == PortBase + RandomOffset(r)
  IN  [ st |-> "binding", algorithm |-> codecs[n], testData |-> Ascii(GenSize + n),
        port |-> port,
        listener |-> IF taken \/ HeldHere(port) THEN "failed" ELSE "listening",
        promise |-> "pending", requests |-> << >>, result |-> NoResult,
        response |-> NoResponse, events |-> << >>, settles |-> 0 ]

\* testCompression(codecs[n], testData) up to the return of app.listen: the
\* listening socket is bound, or the bind has failed, when listen returns;
\* the 'listening' or 'error' event follows in a later turn.  The bind
\* fails when the port is held, by a foreign process (taken) or by a live
\* listener of this process
Called(n, r, taken, data) ==
  LET port == PortBase + RandomOffset(r)
  IN  [ st |-> "binding", algorithm |-> codecs[n], testData |-> data, port |-> port,
        listener |-> IF taken \/ HeldHere(port) THEN "failed" ELSE "listening",
        promise |-> "pending", requests |-> << >>, result |-> NoResult,
        response |-> NoResponse, events |-> << >>, settles |-> 0 ]

\* a server that is never closed
Closed_never(listener) == listener

\* server.close() in the finally block: the listening socket is released;
\* on a server that never listened it changes nothing
Closed(listener) == IF listener = "listening" THEN "closed" ELSE listener

Init ==
  \* whether the installed express hands a listen error to the callback of
  \* app.listen (5.x) or leaves the server's 'error' event without a listener
  \* (4.x) shows at the first failed bind, and stays
  /\ express = "unknown"
  /\ pc = "start"
  /\ urlIdx = 0
  /\ elapsed = 0
  /\ attempts = << >>
  /\ generated = 0
  /\ testData = NoData
  /\ cur = 0
  /\ inv = [n \in Invocations |-> NotCalled]
  /\ results = << >>
  /\ report = NoReport
  /\ notice = FALSE

-----------------------------------------------------------------------------
(* fetchTestData *)

\* compareCompressions is called: fetchTestData issues the first axios.get
Start ==
  /\ pc = "start"
  /\ pc' = "fetch"
  /\ urlIdx' = 1
  /\ elapsed' = 0
  /\ UNCHANGED <<express, attempts, generated, testData, cur, inv, results, report, notice>>

\* time passes while the axios.get is in flight, up to its timeout
Tick ==
  /\ pc = "fetch"
  /\ elapsed < timeout
  /\ elapsed' = IF elapsed + TickMs < timeout THEN elapsed + TickMs ELSE timeout
  /\ UNCHANGED <<express, pc, urlIdx, attempts, generated, testData, cur, inv,
                 results, report, notice>>

\* the first testCompression call of compareCompressions, made in the turn
\* in which fetchTestData returned
RunFirst ==
  /\ pc' = "run"
  /\ results' = << >>
  /\ cur' = 1
  /\ \E r \in 0..(RandSteps - 1), taken \in BOOLEAN :
       inv' = [inv EXCEPT ![1] = Called(1, r, taken, testData')]

\* the axios.get in flight answers in time: return response.data
FetchSucceeds ==
  /\ pc = "fetch"
  /\ elapsed < timeout
  /\ \E data \in RemotePayloads :
       /\ attempts' = Append(attempts, [url |-> urls[urlIdx], outcome |-> "data", data |-> data])
       /\ testData' = data
  /\ elapsed' = 0
  /\ RunFirst
  /\ UNCHANGED <<express, urlIdx, generated, report, notice>>

\* a loop that gives up on the first failure and goes to the generator
FetchFailed_giveUp ==
  /\ attempts' = Append(attempts, [url |-> urls[urlIdx], outcome |-> "failed", data |-> NoData])
  /\ generated' = generated + 1
  /\ testData' \in generateCompressedTestData(GenSize)
  /\ elapsed' = 0
  /\ RunFirst
  /\ UNCHANGED <<express, urlIdx, report, notice>>

\* the catch block of the loop, which does not tell an error from a timeout,
\* then the next iteration or, after the last url, the throw, the outer catch
\* and the generator
FetchFailed ==
  /\ attempts' = Append(attempts, [url |-> urls[urlIdx], outcome |-> "failed", data |-> NoData])
  /\ IF urlIdx < Len(urls)
     THEN /\ urlIdx' = urlIdx + 1
          /\ elapsed' = 0
          /\ UNCHANGED <<express, pc, generated, testData, cur, inv, results, report, notice>>
     ELSE /\ generated' = generated + 1
          /\ testData' \in generateCompressedTestData(GenSize)
          /\ elapsed' = 0
          /\ RunFirst
          /\ UNCHANGED <<express, urlIdx, report, notice>>

\* the axios.get in flight fails before its timeout
FetchErrors ==
  /\ pc = "fetch"
  /\ elapsed < timeout
  /\ FetchFailed

\* the timeout of the axios.get in flight expires
FetchTimesOut ==
  /\ pc = "fetch"
  /\ elapsed = timeout
  /\ FetchFailed

-----------------------------------------------------------------------------
(* testCompression *)

\* the callback of app.listen up to the await of axios.get, after the event
\* that called it: process.hrtime() starts the timer, then the one request
\* of the invocation is issued
IssueRequest(n) ==
  inv' = [inv EXCEPT ![n].st = "requesting",
                     ![n].requests = Append(@, [acceptEncoding |-> AcceptEncoding(inv[n].algorithm),
                                                port |-> inv[n].port]),
                     ![n].events = @ \o << (IF inv[n].listener = "listening"
                                             THEN "listening" ELSE "listen error"),
                                           "timer started", "request issued" >>]

\* the 'listening' event: the callback of app.listen runs
Listening(n) ==
  /\ pc = "run"
  /\ inv[n].st = "binding"
  /\ inv[n].listener = "listening"
  /\ IssueRequest(n)
  /\ UNCHANGED <<express, pc, urlIdx, elapsed, attempts, generated, testData, cur,
                 results, report, notice>>

\* the 'error' event of a failed bind, with an express that passes it to the
\* callback of app.listen: the callback takes no argument and runs as if the
\* server were listening
ListenErrorToCallback(n) ==
  /\ pc = "run"
  /\ inv[n].st = "binding"
  /\ inv[n].listener = "failed"
  /\ express \in {"unknown", "error to callback"}
  /\ express' = "error to callback"
  /\ IssueRequest(n)
  /\ UNCHANGED <<pc, urlIdx, elapsed, attempts, generated, testData, cur,
                 results, report, notice>>

\* the 'error' event of a failed bind, with an express that registers the
\* callback for 'listening' only: the event has no listener, the error is
\* thrown and the process ends, which releases its sockets
ListenErrorUncaught(n) ==
  /\ pc = "run"
  /\ inv[n].st = "binding"
  /\ inv[n].listener = "failed"
  /\ express \in {"unknown", "error unhandled"}
  /\ express' = "error unhandled"
  /\ pc' = "crashed"
  /\ inv' = [m \in Invocations |->
               [inv[m] EXCEPT !.listener = Closed(@),
                              !.events = IF m = n THEN Append(@, "listen error") ELSE @]]
  /\ UNCHANGED <<urlIdx, elapsed, attempts, generated, testData, cur,
                 results, report, notice>>

\* the encodings the server answering on the port of invocation n may
\* implement: its own server runs the installed compression middleware (the
\* releases differ on br only, which one request of a run asks for), a
\* foreign holder of the port anything
ServerEncodings(n) ==
  IF inv[n].listener = "listening" THEN MiddlewareEncodings
  ELSE SUBSET { codecs[i] : i \in Invocations }

\* the body sizes the server answering to invocation n may send
ResponseSizes(n, header) ==
  IF inv[n].listener = "listening" THEN BodySizes(header, inv[n].testData) ELSE 0..MaxBody

\* what happens in the listen callback once the await of axios.get is over
SettleEvents(promise) ==
  IF promise = "resolved"
  THEN << "response received", "timer stopped", "result recorded" >>
  ELSE << "request failed" >>

\* server.close() at the end of the try block instead of a finally block
Settle_closeInTry(n, promise, result, response) ==
  inv' = [inv EXCEPT ![n].st = "settled", ![n].promise = promise,
                     ![n].result = result, ![n].response = response,
                     ![n].settles = @ + 1,
                     ![n].events = @ \o SettleEvents(promise),
                     ![n].listener = IF promise = "resolved" THEN Closed(@) ELSE @]

\* the rest of the listen callback after the await: the response is there,
\* process.hrtime(startTime) stops the timer, the result is built and
\* resolve(result) called; or axios.get threw and reject(error) is called;
\* then the finally block
Settle(n, promise, result, response) ==
  inv' = [inv EXCEPT ![n].st = "settled", ![n].promise = promise,
                     ![n].result = result, ![n].response = response,
                     ![n].settles = @ + 1,
                     ![n].events = @ \o SettleEvents(promise),
                     ![n].listener = Closed(@)]

\* the response arrives: the try block after the await, resolve, finally
RequestSucceeds(n) ==
  /\ pc = "run"
  /\ inv[n].st = "requesting"
  /\ \E supported \in ServerEncodings(n) :
       \E header \in Negotiate(inv[n].requests[Len(inv[n].requests)].acceptEncoding, supported) :
         \E received \in ResponseSizes(n, header) :
           Settle(n, "resolved", Result(header, received, inv[n].testData),
                  [header |-> header, received |-> received])
  /\ UNCHANGED <<express, pc, urlIdx, elapsed, attempts, generated, testData, cur,
                 results, report, notice>>

\* axios.get rejects: the catch block, reject, finally
RequestFails(n) ==
  /\ pc = "run"
  /\ inv[n].st = "requesting"
  /\ Settle(n, "rejected", NoResult, NoResponse)
  /\ UNCHANGED <<express, pc, urlIdx, elapsed, attempts, generated, testData, cur,
                 results, report, notice>>

-----------------------------------------------------------------------------
(* compareCompressions, after the payload *)

\* a call that is not awaited
Resumes_noAwait(n) == TRUE

\* await testCompression(...): compareCompressions resumes once the promise
\* of the invocation is settled
Resumes(n) == inv[n].promise # "pending"

\* results.unshift(result)
Push_front(rs, result) == << result >> \o rs

\* results.push(result)
Push(rs, result) == Append(rs, result)

\* the awaited invocation resolved and another codec follows: push, then
\* call testCompression for the next codec
PushAndRunNext ==
  /\ pc = "run"
  /\ cur < Len(codecs)
  /\ Resumes(cur)
  /\ inv[cur].promise # "rejected"
  /\ results' = Push(results, inv[cur].result)
  /\ cur' = cur + 1
  /\ \E r \in 0..(RandSteps - 1), taken \in BOOLEAN :
       inv' = [inv EXCEPT ![cur + 1] = Called(cur + 1, r, taken, testData)]
  /\ UNCHANGED <<express, pc, urlIdx, elapsed, attempts, generated, testData, report, notice>>

\* the last invocation resolved: push, then console.table(results)
PushAndReport ==
  /\ pc = "run"
  /\ cur = Len(codecs)
  /\ Resumes(cur)
  /\ inv[cur].promise # "rejected"
  /\ results' = Push(results, inv[cur].result)
  /\ report' = results'
  /\ pc' = "done"
  /\ UNCHANGED <<express, urlIdx, elapsed, attempts, generated, testData, cur, inv, notice>>

\* the awaited invocation rejected: the catch block of compareCompressions
\* prints 'Test failed:' and the function returns
CatchFailure ==
  /\ pc = "run"
  /\ Resumes(cur)
  /\ inv[cur].promise = "rejected"
  /\ notice' = TRUE
  /\ pc' = "done"
  /\ UNCHANGED <<express, urlIdx, elapsed, attempts, generated, testData, cur, inv,
                 results, report>>

-----------------------------------------------------------------------------

Next ==
  \/ Start
  \/ Tick
  \/ FetchSucceeds
  \/ FetchErrors
  \/ FetchTimesOut
  \/ \E n \in Invocations : Listening(n)
  \/ \E n \in Invocations : ListenErrorToCallback(n)
  \/ \E n \in Invocations : ListenErrorUncaught(n)
  \/ \E n \in Invocations : RequestSucceeds(n)
  \/ \E n \in Invocations : RequestFails(n)
  \/ PushAndRunNext
  \/ PushAndReport
  \/ CatchFailure

Spec == Init /\ [][Next]_vars

TypeOK ==
  /\ express \in {"unknown", "error to callback", "error unhandled"}
  /\ pc \in {"start", "fetch", "run", "done", "crashed"}
  /\ urlIdx \in 0..Len(urls)
  /\ elapsed \in 0..timeout
  /\ cur \in 0..Len(codecs)
  /\ Len(results) <= Len(codecs)
  /\ notice \in BOOLEAN
  /\ \A n \in Invocations :
       /\ inv[n].st \in {"not called", "binding", "requesting", "settled"}
       /\ inv[n].listener \in {"none", "listening", "failed", "closed"}
       /\ inv[n].promise \in {"pending", "resolved", "rejected"}

-----------------------------------------------------------------------------
(* Properties *)

WasCalled(n) == inv[n].st # "not called"
Failed(n) == inv[n].promise = "rejected" \/ inv[n].listener = "failed"
Ended == pc \in {"done", "crashed"}
AllFailed(log) == \A i \in 1..Len(log) : log[i].outcome = "failed"
Reported(result) == report # NoReport /\ \E i \in 1..Len(report) : report[i] = result

\* C1: when the run has ended and the invocation for one codec failed, every
\* later codec was invoked too, and the result of each later codec that
\* resolved is in the results list.
C1_LaterCodecsRun ==
  Ended =>
    \A n \in Invocations : Failed(n) =>
      \A m \in Invocations : m > n =>
        /\ WasCalled(m)
        /\ inv[m].promise = "resolved" => \E i \in 1..Len(results) : results[i] = inv[m].result

\* C2: once an invocation has completed (its promise resolved or rejected, or
\* the process ended on its failed bind), its listener is not listening.
C2_NoListenerAfterCompletion ==
  \A n \in Invocations :
    (inv[n].promise # "pending" \/ (WasCalled(n) /\ pc = "crashed"))
      => inv[n].listener # "listening"

C2_Witness ==
  /\ inv[1].promise = "resolved" /\ inv[1].listener = "closed"
  /\ inv[2].promise = "rejected" /\ inv[2].listener = "closed"

\* C3: whenever the invocation for codec N+1 has started, the invocation for
\* codec N is settled, its listener is not listening and its result is the
\* N-th element of the results list.
C3_NextStartsAfterCloseAndPush ==
  \A n \in Invocations : (n > 1 /\ WasCalled(n)) =>
    /\ inv[n - 1].st = "settled"
    /\ inv[n - 1].listener # "listening"
    /\ Len(results) >= n - 1
    /\ results[n - 1] = inv[n - 1].result

C3_Witness ==
  /\ inv[3].st = "binding"
  /\ inv[2].listener = "closed"
  /\ Len(results) = 2

\* C4: at most one listener is listening at any time, no two listening
\* listeners hold the same port, and an invocation that has not been called
\* has no listener.
C4_AtMostOneLiveListener ==
  /\ Cardinality({ n \in Invocations : inv[n].listener = "listening" }) <= 1
  /\ \A n, m \in Invocations :
       (n # m /\ inv[n].listener = "listening" /\ inv[m].listener = "listening")
         => inv[n].port # inv[m].port
  /\ \A n \in Invocations : ~WasCalled(n) => inv[n].listener = "none"

C4_Witness ==
  /\ inv[1].listener = "closed"
  /\ inv[2].listener = "listening"
  /\ inv[1].port = inv[2].port

\* C5: the process never ends on a failed bind, and an invocation whose bind
\* failed goes on only by retrying on another port: if it is past the bind
\* without a listener of its own, it is rejected.
C5_BindFailureRetriedOrRejected ==
  /\ pc # "crashed"
  /\ \A n \in Invocations :
       (inv[n].st \in {"requesting", "settled"} /\ inv[n].listener = "failed")
         => inv[n].promise = "rejected"

\* C6: the i-th element of the results list is always the result of the i-th
\* invocation, which resolved; and when all invocations resolved and the run
\* is done, there are exactly 3 results, which are what was printed.
C6_ResultsInInvocationOrder ==
  /\ \A i \in 1..Len(results) :
       i \in Invocations /\ inv[i].promise = "resolved" /\ results[i] = inv[i].result
  /\ (pc = "done" /\ \A n \in Invocations : inv[n].promise = "resolved")
       => (Len(results) = 3 /\ report = results)

C6_Witness ==
  /\ pc = "done"
  /\ \A n \in Invocations : inv[n].promise = "resolved"
  /\ Len(results) = 3
  /\ results[1] # results[2]

\* C7: once fetchTestData is over there is a payload and the first
\* testCompression has been called; when every source failed the payload is
\* the generator's and its length is at least the size asked for.
C7_FetchAlwaysYieldsPayload ==
  pc \notin {"start", "fetch"} =>
    /\ testData # NoData
    /\ cur >= 1 /\ WasCalled(1)
    /\ (Len(attempts) = Len(urls) /\ AllFailed(attempts)) =>
         /\ generated = 1
         /\ testData = Ascii(Length(testData))
         /\ Length(testData) >= GenSize

C7_Witness ==
  /\ Len(attempts) = Len(urls) /\ AllFailed(attempts)
  /\ Length(testData) = GenSize
  /\ inv[1].st = "requesting"

\* C8: the sources are attempted in list order, no attempt lasts longer than
\* the timeout, only the last attempt made can have succeeded, the payload is
\* then that attempt's data and the generator is not called; the generator
\* is called, once, only after every source has failed.
C8_SourcesInOrderThenGenerator ==
  /\ Len(attempts) <= Len(urls)
  /\ \A i \in 1..Len(attempts) : attempts[i].url = urls[i]
  /\ \A i \in 1..(Len(attempts) - 1) : attempts[i].outcome = "failed"
  /\ elapsed <= timeout
  /\ pc = "fetch" => (urlIdx = Len(attempts) + 1 /\ AllFailed(attempts) /\ generated = 0)
  /\ generated \in {0, 1}
  /\ generated = 1 => (Len(attempts) = Len(urls) /\ AllFailed(attempts))
  /\ pc \notin {"start", "fetch"} =>
       \/ generated = 1
       \/ /\ attempts # << >>
          /\ attempts[Len(attempts)].outcome = "data"
          /\ testData = attempts[Len(attempts)].data

C8_Witness ==
  /\ Len(attempts) = 2
  /\ attempts[1].outcome = "failed"
  /\ attempts[2].outcome = "data"
  /\ testData = attempts[2].data
  /\ testData # << >>
  /\ generated = 0

\* C9: the process never crashes, and when compareCompressions is done a
\* report was printed that contains the result of every invocation that
\* resolved.
C9_ReportHasEverySuccess ==
  /\ pc # "crashed"
  /\ pc = "done" =>
       /\ report # NoReport
       /\ \A n \in Invocations : inv[n].promise = "resolved" => Reported(inv[n].result)

C11_AlgorithmIsResponseHeader ==
  \A n \in Invocations :
    /\ inv[n].response # NoResponse =>
         /\ inv[n].promise = "resolved"
         /\ inv[n].response.header = Undefined => inv[n].result.algorithm = "none"
         /\ inv[n].response.header # Undefined =>
              inv[n].result.algorithm = inv[n].response.header
    /\ inv[n].promise = "rejected" => inv[n].response = NoResponse

C11_Witness ==
  \E n \in Invocations :
    /\ inv[n].listener = "closed"
    /\ inv[n].response.header = Undefined
    /\ inv[n].promise = "resolved"
    /\ inv[n].result.algorithm # inv[n].algorithm

Abs(x) == IF x < 0 THEN 0 - x ELSE x

\* C12: the compressionRatio of every result is a number, and it is
\* (original - received) / original as a percentage, to the nearest hundredth
\* of a percent, for original the length of the payload and received the
\* number of bytes of the response body.
C12_RatioLaw ==
  \A n \in Invocations : inv[n].promise = "resolved" =>
    LET original == Length(inv[n].testData)
        received == inv[n].response.received
        ratio    == inv[n].result.compressionRatio
    IN  /\ ratio.number = "finite"
        /\ 2 * Abs(ratio.hundredths * original - 10000 * (original - received)) <= original

\* whether, in the sequence of events ev, every occurrence of b has an
\* occurrence of a before it
Precedes(ev, a, b) ==
  \A i \in 1..Len(ev) : ev[i] = b => \E j \in 1..(i - 1) : ev[j] = a

\* C13: in every invocation the timer starts only after the listener
\* confirmed it is listening, the request is issued only after the timer
\* started, the response is received only after the request was issued, the
\* timer stops only after the response was received, and the result is
\* recorded only after the timer stopped.
C13_EventsInOrder ==
  \A n \in Invocations :
    /\ Precedes(inv[n].events, "listening", "timer started")
    /\ Precedes(inv[n].events, "timer started", "request issued")
    /\ Precedes(inv[n].events, "request issued", "response received")
    /\ Precedes(inv[n].events, "response received", "timer stopped")
    /\ Precedes(inv[n].events, "timer stopped", "result recorded")

\* C14: the originalSize of every result is the formatted number of bytes of
\* the payload, that is of the uncompressed response body.
C14_OriginalSizeInBytes ==
  \A n \in Invocations : inv[n].promise = "resolved" =>
    inv[n].result.originalSize = formatBytes(Utf8Bytes(inv[n].testData))

\* C15: an invocation never issues more than one request and has issued
\* exactly one when it is over; each request goes to the port of the
\* invocation, on which its own server listens, and accepts exactly the
\* codec the invocation was called with.
C15_OneRequestToOwnServer ==
  \A n \in Invocations :
    /\ Len(inv[n].requests) <= 1
    /\ (WasCalled(n) /\ (inv[n].st = "settled" \/ Ended)) => Len(inv[n].requests) = 1
    /\ \A i \in 1..Len(inv[n].requests) :
         /\ inv[n].requests[i].port = inv[n].port
         /\ inv[n].listener \in {"listening", "closed"}
         /\ inv[n].requests[i].acceptEncoding = { codecs[n] }

\* C16: the payload is obtained once, before the first invocation; every
\* invocation holds that same payload, and the originalSize is the same in
\* all results.
C16_PayloadSharedUnchanged ==
  /\ \A n \in Invocations : WasCalled(n) =>
       /\ pc \notin {"start", "fetch"}
       /\ testData # NoData
       /\ inv[n].testData = testData
  /\ pc \notin {"start", "fetch"} =>
       Cardinality({ i \in 1..Len(attempts) : attempts[i].outcome = "data" }) + generated = 1
  /\ \A n, m \in Invocations :
       (inv[n].promise = "resolved" /\ inv[m].promise = "resolved")
         => inv[n].result.originalSize = inv[m].result.originalSize

C16_Witness ==
  /\ \A n \in Invocations : inv[n].promise = "resolved" /\ inv[n].testData = testData
  /\ generated = 1
  /\ Len(results) = 3
  /\ results[1].originalSize = results[3].originalSize

\* C17: resolve or reject is called at most once in an invocation, the
\* promise is pending exactly as long as neither was called, and when the
\* run has ended every invocation that was called is settled.
C17_SettlesExactlyOnce ==
  \A n \in Invocations :
    /\ inv[n].settles <= 1
    /\ inv[n].promise = "pending" <=> inv[n].settles = 0
    /\ (Ended /\ WasCalled(n)) => inv[n].settles = 1

\* C18: the port of every invocation is an integer from 3000 to 3999.
C18_PortInRange ==
  \A n \in Invocations : WasCalled(n) =>
    inv[n].port \in Int /\ inv[n].port >= 3000 /\ inv[n].port <= 3999

\* a port is chosen again right after an invocation used it, and although a
\* foreign process holds it by then
C18_Witness ==
  /\ inv[1].listener = "closed"
  /\ inv[2].listener = "failed"
  /\ inv[2].port = inv[1].port
  /\ inv[2].port > 3000

====
